---- MODULE Spec2Model ----
(***************************************************************************)
(* Model of the mp4decrypt crate (src/mp4decrypt/src/lib.rs): the safe     *)
(* function mp4decrypt, the output-sink callback decrypt_callback, and the *)
(* C-ABI adapter mp4decrypt_capi.  The native Bento4 engine, the JSON      *)
(* parser and malloc are external: the model draws their outcomes from     *)
(* small sets.                                                             *)
(*                                                                         *)
(* Lengths are 64-bit usize values, kept as four 16-bit limbs (little      *)
(* endian) so that the 2^32-1 ceiling keeps its real position.  Strings of *)
(* the KeyMap are byte sequences; messages are TLA+ strings.               *)
(***************************************************************************)
EXTENDS Integers, Sequences, FiniteSets, TLC

VARIABLES
    pc,             \* "idle", "native" (inside the one native call), "done", "panicked"
    caller,         \* "none", "host" (mp4decrypt called directly), "capi"
    req,            \* <<>> or <<arguments of mp4decrypt>>
    creq,           \* <<>> or <<arguments of mp4decrypt_capi>>
    calls,          \* the native calls made so far, in order
    decrypted_data, \* the output sink: Box<Vec<u8>> of mp4decrypt
    cb_count,       \* how often the engine invoked decrypt_callback
    delivered,      \* the bytes the engine handed to the last callback
    native_status,  \* <<>> or <<the c_int the native call returned>>
    result,         \* <<>> or <<the Result mp4decrypt returned>>
    malloc_out,     \* <<>> or <<what libc::malloc answered>>
    capi_ret,       \* <<>> or <<the c_int mp4decrypt_capi returned>>
    mem,            \* the caller's cells *out_ptr, *out_len, *err_out
    heap            \* allocated buffers: address -> bytes

vars == <<pc, caller, req, creq, calls, decrypted_data, cb_count, delivered,
          native_status, result, malloc_out, capi_ret, mem, heap>>

----------------------------------------------------------------------------
(* Bounds of the model *)

\* most entries of a KeyMap
MaxKeys == 2
\* longest byte sequence the engine hands to the callback
MaxOut == 2
\* most callback invocations during one native call
MaxCallbacks == 2

----------------------------------------------------------------------------
(* usize and u32 *)

LimbMax == 2^16 - 1

Usize(l0, l1, l2, l3) == <<l0, l1, l2, l3>>

\* u32::try_from(len): Ok for len <= u32::MAX, i.e. no bit above bit 31
FitsU32(len) == len[3] = 0 /\ len[4] = 0

\* the u32 a fitting usize converts to (its two low limbs)
ToU32(len) == <<len[1], len[2]>>

IsZeroLen(len) == len = Usize(0, 0, 0, 0)

U32MaxLen == Usize(LimbMax, LimbMax, 0, 0)
U32MaxPlus1 == Usize(0, 0, 1, 0)

\* the lengths the model draws data and fragments buffers from
Lens == { Usize(0, 0, 0, 0), Usize(1, 0, 0, 0), U32MaxLen, U32MaxPlus1 }

----------------------------------------------------------------------------
(* Option and Result values *)

None == <<>>
Some(v) == <<v>>
IsSome(o) == o # <<>>
Unwrap(o) == o[1]

\* ErrorType: InvalidFormat, DataTooLarge, Failed(c_int); x is 0 unless Failed
ErrorType(kind, x) == [kind |-> kind, x |-> x]
Error(msg, err_type) == [msg |-> msg, err_type |-> err_type]

Ok(v) == [tag |-> "Ok", val |-> v, err |-> Error("", ErrorType("", 0))]
Err(e) == [tag |-> "Err", val |-> <<>>, err |-> e]

----------------------------------------------------------------------------
(* KeyMap: HashMap<String, String>; a String is a sequence of bytes *)

NUL == 0

\* key identifiers and key strings the model draws from; one of each holds
\* an embedded NUL byte
KidPool == { <<49>>, <<50>>, <<51>>, <<52, NUL>> }
KeyPool == { <<97>>, <<NUL, 98>> }

KeyMaps ==
    UNION { [D -> KeyPool] : D \in { S \in SUBSET KidPool : Cardinality(S) <= MaxKeys } }

HasNul(s) == \E i \in 1..Len(s) : s[i] = NUL

\* the orders in which keys.iter() may visit the entries of a HashMap
IterOrders(keys) ==
    { o \in [1..Cardinality(DOMAIN keys) -> DOMAIN keys] :
        \A i, j \in DOMAIN o : i # j => o[i] # o[j] }

\* CString::new(s): Err when s holds a NUL byte, else s with a NUL terminator
CStringNew(s) == IF HasNul(s) THEN None ELSE Some(s \o <<NUL>>)

\* the loop of mp4decrypt over keys.iter().enumerate(): None when an unwrap()
\* of CString::new panics, else the two parallel arrays c_kids and c_keys
MarshalKeys(keys, order) ==
    IF \E i \in DOMAIN order :
          CStringNew(order[i]) = None \/ CStringNew(keys[order[i]]) = None
    THEN None
    ELSE Some([c_kids |-> [i \in DOMAIN order |-> Unwrap(CStringNew(order[i]))],
               c_keys |-> [i \in DOMAIN order |-> Unwrap(CStringNew(keys[order[i]]))]])

----------------------------------------------------------------------------
(* Error translation: lines 144-168 *)

DigitChar(d) ==
    CASE d = 0 -> "0" [] d = 1 -> "1" [] d = 2 -> "2" [] d = 3 -> "3" [] d = 4 -> "4"
      [] d = 5 -> "5" [] d = 6 -> "6" [] d = 7 -> "7" [] d = 8 -> "8" [] d = 9 -> "9"

\* decimal digits of -n for n <= 0 (the magnitude of i32::MIN is no i32)
RECURSIVE NegDigits(_)
NegDigits(n) ==
    LET d == (10 - (n % 10)) % 10
        rest == (n + d) \div 10
    IN  IF rest = 0 THEN DigitChar(d) ELSE NegDigits(rest) \o DigitChar(d)

\* Display of a c_int, as format!("{}", x) writes it
FormatInt(x) == IF x < 0 THEN "-" \o NegDigits(x) ELSE NegDigits(0 - x)

\* ErrorFromStatus with the arm for 101 lost: 101 falls through to Failed
ErrorFromStatus_NoArm101(x) ==
    CASE x = 100 -> Error("invalid hex format for key id.", ErrorType("InvalidFormat", 0))
      [] x = 102 -> Error("invalid hex format for key.", ErrorType("InvalidFormat", 0))
      [] OTHER   -> Error("failed to decrypt data with error code " \o FormatInt(x) \o ".",
                          ErrorType("Failed", x))

\* the match on a non-zero native status
ErrorFromStatus(x) ==
    CASE x = 100 -> Error("invalid hex format for key id.", ErrorType("InvalidFormat", 0))
      [] x = 101 -> Error("invalid key id.", ErrorType("InvalidFormat", 0))
      [] x = 102 -> Error("invalid hex format for key.", ErrorType("InvalidFormat", 0))
      [] OTHER   -> Error("failed to decrypt data with error code " \o FormatInt(x) \o ".",
                          ErrorType("Failed", x))

\* if result == 0 { Ok(*decrypted_data) } else { Err(..) }
ResultOf(status, sink) == IF status = 0 THEN Ok(sink) ELSE Err(ErrorFromStatus(status))

----------------------------------------------------------------------------
(* The output sink *)

Bytes == { 7, 9 }

RECURSIVE SeqsUpTo(_, _)
SeqsUpTo(S, n) ==
    IF n = 0 THEN { <<>> }
    ELSE LET shorter == SeqsUpTo(S, n - 1)
         IN  shorter \cup { Append(s, b) : s \in { t \in shorter : Len(t) = n - 1 }, b \in S }

\* what the engine may hand to the callback
Chunks == SeqsUpTo(Bytes, MaxOut)

\* a callback that extends the sink instead of replacing it
SinkAfterCallback_Extend(sink, data) == sink \o data

\* *decrypted_stream = from_raw_parts(data, size).to_vec()
SinkAfterCallback(sink, data) == data

----------------------------------------------------------------------------
(* The native call of mp4decrypt: lines 111-142 *)

I32Min == 0 - 2147483647 - 1
I32Max == 2147483647

\* the statuses the model lets the engine return
Statuses == { I32Min, 0 - 1, 0, 1, 2, 100, 101, 102, 103, I32Max }

\* the count literal both call sites pass as nkeys
NKeysArg(c_kids) == 1

NativeCall(data_size, m, fragments_info) ==
    IF IsSome(fragments_info)
    THEN [entry |-> "decrypt_in_memory_with_fragments_info",
          data_size |-> data_size, keyids |-> m.c_kids, keys |-> m.c_keys,
          nkeys |-> NKeysArg(m.c_kids),
          fragments_info_data_size |-> Some(ToU32(Unwrap(fragments_info)))]
    ELSE [entry |-> "decrypt_in_memory",
          data_size |-> data_size, keyids |-> m.c_kids, keys |-> m.c_keys,
          nkeys |-> NKeysArg(m.c_kids),
          fragments_info_data_size |-> None]

\* mp4decrypt up to and including the start of the native call (lines 91-142).
\* kind "err": returned early; "panic": an unwrap() panicked; "call": the
\* native call with the given arguments is under way.
Mp4decryptEnter(data_len, keys, order, fragments_info) ==
    IF ~FitsU32(data_len)
    THEN [kind |-> "err", calls |-> <<>>,
          res |-> Some(Err(Error("the input data stream is too large.",
                                 ErrorType("DataTooLarge", 0))))]
    ELSE LET m == MarshalKeys(keys, order) IN
         IF m = None
         THEN [kind |-> "panic", calls |-> <<>>, res |-> None]
         ELSE IF IsSome(fragments_info) /\ ~FitsU32(Unwrap(fragments_info))
         THEN [kind |-> "err", calls |-> <<>>,
               res |-> Some(Err(Error("the fragments info data stream is too large.",
                                      ErrorType("DataTooLarge", 0))))]
         ELSE [kind |-> "call",
               calls |-> <<NativeCall(ToU32(data_len), Unwrap(m), fragments_info)>>,
               res |-> None]

----------------------------------------------------------------------------
(* mp4decrypt_capi: lines 178-259 *)

\* the DecryptError record behind err_out
DecryptError(code, message) == [code |-> code, message |-> message]

\* what the caller's cells hold before the call
MemInit ==
    [out_ptr |-> "stale", out_len |-> 0 - 1, err_out |-> DecryptError(0, "stale")]

\* the C string keys_json points to: whether to_str() accepts it as UTF-8,
\* and what serde_json::from_str makes of it (None: a parse error)
KeysJsons ==
    [is_null : {TRUE}, utf8 : {FALSE}, parsed : {None}]
    \cup [is_null : {FALSE}, utf8 : BOOLEAN, parsed : {None}]
    \cup [is_null : {FALSE}, utf8 : {TRUE}, parsed : { Some(k) : k \in KeyMaps }]

CapiArgs ==
    [data_ptr_null : BOOLEAN, data_len : Lens, keys_json : KeysJsons,
     fragments_ptr_null : BOOLEAN, fragments_len : Lens,
     out_ptr_null : BOOLEAN, out_len_null : BOOLEAN, err_out_null : BOOLEAN]

\* (*err_out).code = code; (*err_out).message = msg.into_raw(), under the
\* guard !err_out.is_null()
WriteErr(a, m, code, message) ==
    IF a.err_out_null THEN m ELSE [m EXCEPT !.err_out = DecryptError(code, message)]

\* CapiValidate reading keys_json before the null checks are done with
CapiValidate_Utf8First(a, m) ==
    IF ~a.keys_json.is_null /\ ~a.keys_json.utf8
    THEN [ret |-> Some(0 - 2), mem |-> WriteErr(a, m, 0 - 2, "Invalid UTF-8 in keys_json")]
    ELSE IF a.data_ptr_null \/ a.keys_json.is_null \/ a.out_ptr_null \/ a.out_len_null
    THEN [ret |-> Some(0 - 1), mem |-> m]
    ELSE IF a.keys_json.parsed = None
    THEN [ret |-> Some(0 - 3), mem |-> WriteErr(a, m, 0 - 3, "Failed to parse keys JSON")]
    ELSE [ret |-> None, mem |-> m]

\* lines 188-222: the three fast-fail checks; ret = None when all pass
CapiValidate(a, m) ==
    IF a.data_ptr_null \/ a.keys_json.is_null \/ a.out_ptr_null \/ a.out_len_null
    THEN [ret |-> Some(0 - 1), mem |-> m]
    ELSE IF ~a.keys_json.utf8
    THEN [ret |-> Some(0 - 2), mem |-> WriteErr(a, m, 0 - 2, "Invalid UTF-8 in keys_json")]
    ELSE IF a.keys_json.parsed = None
    THEN [ret |-> Some(0 - 3), mem |-> WriteErr(a, m, 0 - 3, "Failed to parse keys JSON")]
    ELSE [ret |-> None, mem |-> m]

\* lines 224-228
FragmentsInfo(a) ==
    IF ~a.fragments_ptr_null /\ ~IsZeroLen(a.fragments_len)
    THEN Some(a.fragments_len) ELSE None

\* libc::malloc(len): a fresh block, or NULL when memory is exhausted; for
\* len = 0 the C library may also answer NULL with nothing having failed
MallocOutcomes(len) ==
    { [ptr |-> "block", oom |-> FALSE], [ptr |-> "null", oom |-> TRUE] }
    \cup (IF len = 0 THEN { [ptr |-> "null", oom |-> FALSE] } ELSE {})

\* ErrCode with the codes of InvalidFormat and DataTooLarge exchanged
ErrCode_Swapped(err_type) ==
    CASE err_type.kind = "InvalidFormat" -> 2
      [] err_type.kind = "DataTooLarge"  -> 1
      [] err_type.kind = "Failed"        -> err_type.x

\* the code written to err_out for a failed session (lines 248-252)
ErrCode(err_type) ==
    CASE err_type.kind = "InvalidFormat" -> 1
      [] err_type.kind = "DataTooLarge"  -> 2
      [] err_type.kind = "Failed"        -> err_type.x

\* the Ok arm storing the length before it looks at what malloc answered
CapiOnOk_LenFirst(a, m, h, output, alloc) ==
    IF alloc.ptr = "null"
    THEN [ret |-> 0 - 4, mem |-> [m EXCEPT !.out_len = Len(output)], heap |-> h]
    ELSE [ret |-> 0,
          mem |-> [m EXCEPT !.out_ptr = alloc.ptr, !.out_len = Len(output)],
          heap |-> h \cup { [addr |-> alloc.ptr, bytes |-> output] }]

\* the Ok arm (lines 231-243)
CapiOnOk(a, m, h, output, alloc) ==
    IF alloc.ptr = "null"
    THEN [ret |-> 0 - 4, mem |-> m, heap |-> h]
    ELSE [ret |-> 0,
          mem |-> [m EXCEPT !.out_ptr = alloc.ptr, !.out_len = Len(output)],
          heap |-> h \cup { [addr |-> alloc.ptr, bytes |-> output] }]

\* the Err arm (lines 244-257)
CapiOnErr(a, m, h, err) ==
    [ret |-> 1, mem |-> WriteErr(a, m, ErrCode(err.err_type), err.msg), heap |-> h]

\* the match on the session's Result (lines 230-258)
CapiAfterSession(a, m, h, res, alloc) ==
    IF res.tag = "Ok" THEN CapiOnOk(a, m, h, res.val, alloc)
    ELSE CapiOnErr(a, m, h, res.err)

----------------------------------------------------------------------------
(* The state machine *)

Init ==
    /\ pc = "idle"
    /\ caller = "none"
    /\ req = None
    /\ creq = None
    /\ calls = <<>>
    /\ decrypted_data = <<>>
    /\ cb_count = 0
    /\ delivered = <<>>
    /\ native_status = None
    /\ result = None
    /\ malloc_out = None
    /\ capi_ret = None
    /\ mem = MemInit
    /\ heap = {}

FragmentsArgs == { None } \cup { Some(l) : l \in Lens }

\* a host program calls mp4decrypt(data, keys, fragments_info)
HostCall ==
    /\ pc = "idle"
    /\ \E data_len \in Lens, keys \in KeyMaps, fragments_info \in FragmentsArgs :
       \E order \in IterOrders(keys) :
         LET e == Mp4decryptEnter(data_len, keys, order, fragments_info) IN
         /\ caller' = "host"
         /\ req' = Some([data_len |-> data_len, keys |-> keys,
                         fragments_info |-> fragments_info])
         /\ calls' = e.calls
         /\ result' = e.res
         /\ pc' = CASE e.kind = "call" -> "native"
                    [] e.kind = "err" -> "done"
                    [] e.kind = "panic" -> "panicked"
    /\ UNCHANGED <<creq, decrypted_data, cb_count, delivered, native_status,
                   malloc_out, capi_ret, mem, heap>>

\* a foreign caller calls mp4decrypt_capi
CapiCall ==
    /\ pc = "idle"
    /\ \E a \in CapiArgs :
         LET v == CapiValidate(a, mem) IN
         /\ caller' = "capi"
         /\ creq' = Some(a)
         /\ IF IsSome(v.ret)
            THEN /\ capi_ret' = v.ret
                 /\ mem' = v.mem
                 /\ pc' = "done"
                 /\ UNCHANGED <<req, calls, result>>
            ELSE LET keys == Unwrap(a.keys_json.parsed)
                     fragments_info == FragmentsInfo(a)
                 IN  \E order \in IterOrders(keys) :
                       LET e == Mp4decryptEnter(a.data_len, keys, order, fragments_info)
                           t == CapiOnErr(a, mem, heap, Unwrap(e.res).err)
                       IN
                       /\ req' = Some([data_len |-> a.data_len, keys |-> keys,
                                       fragments_info |-> fragments_info])
                       /\ calls' = e.calls
                       /\ result' = e.res
                       /\ pc' = CASE e.kind = "call" -> "native"
                                  [] e.kind = "err" -> "done"
                                  [] e.kind = "panic" -> "panicked"
                       /\ capi_ret' = IF e.kind = "err" THEN Some(t.ret) ELSE None
                       /\ mem' = IF e.kind = "err" THEN t.mem ELSE mem
    /\ UNCHANGED <<decrypted_data, cb_count, delivered, native_status, malloc_out, heap>>

\* the engine invokes the callback with a region of decrypted bytes
decrypt_callback ==
    /\ pc = "native"
    /\ cb_count < MaxCallbacks
    /\ \E data \in Chunks :
         /\ decrypted_data' = SinkAfterCallback(decrypted_data, data)
         /\ delivered' = data
    /\ cb_count' = cb_count + 1
    /\ UNCHANGED <<pc, caller, req, creq, calls, native_status, result, malloc_out,
                   capi_ret, mem, heap>>

\* the native call returns its status; mp4decrypt returns, and under the
\* adapter the match on its Result runs
NativeReturn ==
    /\ pc = "native"
    /\ \E status \in Statuses :
         LET res == ResultOf(status, decrypted_data) IN
         /\ native_status' = Some(status)
         /\ result' = Some(res)
         /\ IF caller = "capi"
            THEN \E alloc \in MallocOutcomes(Len(res.val)) :
                   LET t == CapiAfterSession(Unwrap(creq), mem, heap, res, alloc) IN
                   /\ malloc_out' = IF res.tag = "Ok" THEN Some(alloc) ELSE None
                   /\ capi_ret' = Some(t.ret)
                   /\ mem' = t.mem
                   /\ heap' = t.heap
            ELSE UNCHANGED <<malloc_out, capi_ret, mem, heap>>
    /\ pc' = "done"
    /\ UNCHANGED <<caller, req, creq, calls, decrypted_data, cb_count, delivered>>

Next == HostCall \/ CapiCall \/ decrypt_callback \/ NativeReturn

Spec == Init /\ [][Next]_vars

----------------------------------------------------------------------------
(* Properties *)

Entered == IsSome(req)
Args == Unwrap(req)
Finished == pc = "done"
UnderCapi == caller = "capi" /\ IsSome(creq)
CArgs == Unwrap(creq)

KeysHaveNul(keys) == \E k \in DOMAIN keys : HasNul(k) \/ HasNul(keys[k])

LengthsFit(r) ==
    /\ FitsU32(r.data_len)
    /\ IsSome(r.fragments_info) => FitsU32(Unwrap(r.fragments_info))

\* C1: for a KeyMap with N >= 2 entries, every native call, on either entry
\* point, passes N as nkeys, the length of both marshaled arrays.
C1_NKeysIsEntryCount ==
    (Entered /\ Cardinality(DOMAIN Args.keys) >= 2) =>
        \A i \in DOMAIN calls :
            /\ Len(calls[i].keyids) = Cardinality(DOMAIN Args.keys)
            /\ Len(calls[i].keys) = Cardinality(DOMAIN Args.keys)
            /\ calls[i].nkeys = Cardinality(DOMAIN Args.keys)

\* C2: mp4decrypt returns Ok exactly when the native status is 0; the Ok
\* payload is the bytes the callback captured (empty when it never ran); a
\* non-zero status gives Err and no buffer, whatever the sink holds.
C2_OkIffStatusZero ==
    /\ (IsSome(result) /\ Unwrap(result).tag = "Ok") => native_status = Some(0)
    /\ IsSome(native_status) =>
         /\ IsSome(result)
         /\ IF Unwrap(native_status) = 0
            THEN /\ Unwrap(result).tag = "Ok"
                 /\ Unwrap(result).val = (IF cb_count = 0 THEN <<>> ELSE delivered)
            ELSE /\ Unwrap(result).tag = "Err"
                 /\ Unwrap(result).val = <<>>

\* the engine reported failure after the callback had filled the sink
C2_Witness ==
    /\ Finished
    /\ IsSome(native_status) /\ Unwrap(native_status) # 0
    /\ cb_count = MaxCallbacks
    /\ decrypted_data # <<>>
    /\ Unwrap(result).tag = "Err"

IsDataTooLarge(r) ==
    IsSome(r) /\ Unwrap(r).tag = "Err" /\ Unwrap(r).err.err_type.kind = "DataTooLarge"

\* C3: a call whose data is longer than 2^32-1, or whose fragments_info is
\* present and longer than 2^32-1, ends with Err(DataTooLarge) and no native
\* call.
C3_TooLargeRejected ==
    (Entered /\ ~LengthsFit(Args)) =>
        /\ Finished
        /\ IsDataTooLarge(result)
        /\ calls = <<>>

\* the message and kind C4 names for a non-zero status
C4_Expected(x) ==
    IF x = 100 THEN Error("invalid hex format for key id.", ErrorType("InvalidFormat", 0))
    ELSE IF x = 101 THEN Error("invalid key id.", ErrorType("InvalidFormat", 0))
    ELSE IF x = 102 THEN Error("invalid hex format for key.", ErrorType("InvalidFormat", 0))
    ELSE Error("failed to decrypt data with error code " \o ToString(x) \o ".",
               ErrorType("Failed", x))

\* C4: a non-zero native status s gives InvalidFormat with the documented
\* message for 100, 101 and 102, and Failed(s) with the decimal of s in the
\* message for every other s, negative ones included; no status panics.
C4_StatusMapping ==
    (IsSome(native_status) /\ Unwrap(native_status) # 0) =>
        /\ pc = "done"
        /\ result = Some(Err(C4_Expected(Unwrap(native_status))))

\* the engine returned the most negative c_int
C4_Witness ==
    /\ Finished
    /\ native_status = Some(I32Min)
    /\ Unwrap(result).err.msg = "failed to decrypt data with error code -2147483648."

\* C5: a request within the length limits makes exactly one native call: the
\* fragments-aware entry point, with the fragments length, when
\* fragments_info is Some (of an empty slice too), the plain one when None.
C5_ExactlyOneCall ==
    (Entered /\ LengthsFit(Args)) =>
        /\ Len(calls) = 1
        /\ IF IsSome(Args.fragments_info)
           THEN /\ calls[1].entry = "decrypt_in_memory_with_fragments_info"
                /\ calls[1].fragments_info_data_size
                     = Some(ToU32(Unwrap(Args.fragments_info)))
           ELSE calls[1].entry = "decrypt_in_memory"

\* C6: a KeyMap with an embedded NUL in an identifier or key makes mp4decrypt
\* return Err(InvalidFormat), with no panic and no native call.
C6_NulIsReturnedAsError ==
    (Entered /\ LengthsFit(Args) /\ KeysHaveNul(Args.keys)) =>
        /\ Finished
        /\ IsSome(result)
        /\ Unwrap(result).tag = "Err"
        /\ Unwrap(result).err.err_type.kind = "InvalidFormat"
        /\ calls = <<>>

AnyRequiredNull(a) ==
    a.data_ptr_null \/ a.keys_json.is_null \/ a.out_ptr_null \/ a.out_len_null

\* err_out holds the message exactly when err_out is non-null
ErrRecordIs(a, message) ==
    IF a.err_out_null THEN mem.err_out = MemInit.err_out
    ELSE mem.err_out.message = message

\* C7: the adapter checks in order and returns at the first failing check
\* without entering mp4decrypt: a null required pointer gives -1 and leaves
\* err_out alone; keys_json that is no UTF-8 gives -2; keys_json that does
\* not parse gives -3; the two messages are stored exactly when err_out is
\* non-null.
C7_ValidationOrder ==
    UnderCapi =>
        IF AnyRequiredNull(CArgs)
        THEN capi_ret = Some(0 - 1) /\ mem.err_out = MemInit.err_out /\ ~Entered
        ELSE IF ~CArgs.keys_json.utf8
        THEN /\ capi_ret = Some(0 - 2)
             /\ ErrRecordIs(CArgs, "Invalid UTF-8 in keys_json")
             /\ ~Entered
        ELSE IF CArgs.keys_json.parsed = None
        THEN /\ capi_ret = Some(0 - 3)
             /\ ErrRecordIs(CArgs, "Failed to parse keys JSON")
             /\ ~Entered
        ELSE Entered

\* keys_json is no UTF-8 and data_len is over the ceiling: -2 wins
C7_Witness ==
    /\ UnderCapi
    /\ ~AnyRequiredNull(CArgs)
    /\ ~CArgs.keys_json.utf8
    /\ ~CArgs.err_out_null
    /\ ~FitsU32(CArgs.data_len)
    /\ capi_ret = Some(0 - 2)
    /\ mem.err_out.message = "Invalid UTF-8 in keys_json"

C8_ExpectedCode(err_type) ==
    IF err_type.kind = "InvalidFormat" THEN 1
    ELSE IF err_type.kind = "DataTooLarge" THEN 2
    ELSE err_type.x

\* C8: when the session under the adapter returns Err, the adapter returns 1
\* and, for a non-null err_out, stores the code InvalidFormat -> 1,
\* DataTooLarge -> 2, Failed(x) -> x and the session's message; a data_len
\* above 2^32-1 that reaches the session gives status 1 with code 2.
C8_SessionFailure ==
    /\ (UnderCapi /\ IsSome(result) /\ Unwrap(result).tag = "Err") =>
          /\ capi_ret = Some(1)
          /\ IF CArgs.err_out_null THEN mem.err_out = MemInit.err_out
             ELSE mem.err_out =
                    DecryptError(C8_ExpectedCode(Unwrap(result).err.err_type),
                                 Unwrap(result).err.msg)
    /\ (UnderCapi /\ Entered /\ ~FitsU32(CArgs.data_len)) =>
          /\ capi_ret = Some(1)
          /\ ~CArgs.err_out_null => mem.err_out.code = 2

\* data_len is 2^32 and the adapter answered 1 with code 2
C8_Witness ==
    /\ UnderCapi /\ Entered
    /\ CArgs.data_len = U32MaxPlus1
    /\ capi_ret = Some(1)
    /\ mem.err_out = DecryptError(2, "the input data stream is too large.")

SessionOk == UnderCapi /\ IsSome(result) /\ Unwrap(result).tag = "Ok"

\* C9: when the session under the adapter returns Ok (an empty output
\* included) the adapter returns 0, *out_len is the length of the captured
\* bytes and *out_ptr is a new block holding them; it returns -4 only when
\* the allocation failed.
C9_SuccessPublishesOutput ==
    SessionOk =>
        /\ ~Unwrap(malloc_out).oom =>
              /\ capi_ret = Some(0)
              /\ mem.out_len = Len(decrypted_data)
              /\ [addr |-> mem.out_ptr, bytes |-> decrypted_data] \in heap
        /\ capi_ret = Some(0 - 4) => Unwrap(malloc_out).oom

\* C10: each return of the adapter writes the caller's cells by status: 0
\* writes *out_ptr and *out_len and not err_out; -2, -3 and 1 write only
\* err_out, and only when it is non-null; -1 and -4 write nothing.
C10_FrameByStatus ==
    (UnderCapi /\ IsSome(capi_ret)) =>
        LET ret == Unwrap(capi_ret) IN
        /\ ret \in { 0, 0 - 1, 0 - 2, 0 - 3, 0 - 4, 1 }
        /\ ret = 0 =>
              /\ mem.out_ptr # MemInit.out_ptr
              /\ mem.out_len # MemInit.out_len
              /\ mem.err_out = MemInit.err_out
        /\ ret \in { 0 - 2, 0 - 3, 1 } =>
              /\ mem.out_ptr = MemInit.out_ptr
              /\ mem.out_len = MemInit.out_len
              /\ (mem.err_out # MemInit.err_out) <=> ~CArgs.err_out_null
        /\ ret \in { 0 - 1, 0 - 4 } => mem = MemInit

\* the session succeeded with a non-empty output and malloc answered NULL
C10_Witness ==
    /\ SessionOk
    /\ decrypted_data # <<>>
    /\ Unwrap(malloc_out).ptr = "null"
    /\ capi_ret = Some(0 - 4)
    /\ mem = MemInit

====
